---------------------------- MODULE Spec2Model ----------------------------
(***************************************************************************)
(* A model of misconfig-configdiffvisualizer (src/main.py): the command    *)
(* line pipeline of main(), the type detector, the whitespace normalizer   *)
(* and the diff engine that generate_diff_html drives.                     *)
(*                                                                         *)
(* Texts and paths are sequences of one-character strings.                 *)
(***************************************************************************)
EXTENDS Integers, Sequences, FiniteSets, TLC

VARIABLES
    pc,          \* position of the run inside the operation being modelled
    args,        \* the parsed command line (argparse namespace)
    file_type,   \* main's local file_type
    config1,     \* main's local config1 (result of read_file on file1)
    config2,     \* main's local config2
    log,         \* the observable events of the run, in order
    exit_status, \* "running", "exit0" (normal return) or "exit1" (sys.exit(1))
    emitted,     \* where a diff document went: "none", "stdout", "file", "partial"
    path,        \* detect_file_type's argument
    detected,    \* detect_file_type's return value
    call,        \* generate_diff_html's arguments as passed
    text1,       \* generate_diff_html's local text1
    text2,       \* generate_diff_html's local text2
    raw,         \* the edit script diff_main returned, before the cleanup
    diff,        \* generate_diff_html's local diff
    html,        \* generate_diff_html's return value
    doc1,        \* the parsed content of file1 (yaml.safe_load's result)
    doc2         \* the parsed content of file2

mainVars == <<args, file_type, config1, config2, log, exit_status, emitted>>
detectVars == <<path, detected>>
diffVars == <<call, text1, text2, raw, diff, html>>

yamlVars == <<doc1, doc2>>

vars == <<pc, mainVars, detectVars, diffVars, yamlVars>>

(***************************************************************************)
(* Characters and strings                                                  *)
(***************************************************************************)

\* str.lower() on the characters the models use (ASCII letters only).
LowerChar(c) ==
    CASE c = "J" -> "j" [] c = "S" -> "s" [] c = "O" -> "o" [] c = "N" -> "n"
      [] c = "Y" -> "y" [] c = "A" -> "a" [] c = "M" -> "m" [] c = "L" -> "l"
      [] OTHER -> c

lower(s) == [i \in 1..Len(s) |-> LowerChar(s[i])]

\* Python's s.rfind(c) shifted to 1-based positions: 0 when c is absent.
rfind(s, c) ==
    LET hits == {i \in 1..Len(s) : s[i] = c}
    IN  IF hits = {} THEN 0 ELSE CHOOSE i \in hits : \A j \in hits : j <= i

EndsWith(s, suf) ==
    /\ Len(s) >= Len(suf)
    /\ SubSeq(s, Len(s) - Len(suf) + 1, Len(s)) = suf

(***************************************************************************)
(* detect_file_type                                                        *)
(***************************************************************************)

\* os.path.splitext(p)[1] (posixpath): the extension starts at the last dot of
\* the last path component, unless only dots precede it in that component.
splitext_ext(p) ==
    LET sepIndex == rfind(p, "/")
        dotIndex == rfind(p, ".")
    IN  IF dotIndex > sepIndex
           /\ \E k \in (sepIndex + 1)..(dotIndex - 1) : p[k] # "."
        THEN SubSeq(p, dotIndex, Len(p))
        ELSE <<>>

\* The mutant of ext_lower: the extension compared as written.
ext_lower_CaseSensitive(p) == splitext_ext(p)

\* main.py 118-119: _, ext = os.path.splitext(file_path); ext = ext.lower()
ext_lower(p) == lower(splitext_ext(p))

detect_file_type(p) ==
    LET ext == ext_lower(p)
    IN  IF ext \in {<<".", "y", "a", "m", "l">>, <<".", "y", "m", "l">>}
        THEN "yaml"
        ELSE IF ext = <<".", "j", "s", "o", "n">>
        THEN "json"
        ELSE "text"


(***************************************************************************)
(* main(): the command line pipeline                                       *)
(***************************************************************************)

FileTypes == {"yaml", "json", "text"}

\* Paths the pipeline is run on.
a_yaml == <<"a", ".", "y", "a", "m", "l">>
b_json == <<"b", ".", "j", "s", "o", "n">>
c_conf == <<"c", ".", "c", "o", "n", "f">>
d_YML  == <<"d", ".", "Y", "M", "L">>
PipelinePaths == {a_yaml, b_json, c_conf, d_YML}

\* argparse: file1, file2, -t (None when absent), --ignore-whitespace,
\* --no-validation, -o (whether an output path was given).
ArgSpace ==
    [file1 : PipelinePaths, file2 : PipelinePaths,
     type : FileTypes \cup {"None"},
     ignore_whitespace : BOOLEAN, no_validation : BOOLEAN, output : BOOLEAN]

\* What running the lint command can do: exit 0, exit non-zero
\* (CalledProcessError), not be installed (FileNotFoundError), or fail to
\* start for another reason (any other exception).
LintOutcomes == {"pass", "fail", "absent", "error"}

\* What a file holds when it is opened: it cannot be opened or decoded, or its
\* content is valid JSON (and YAML), valid YAML only, or neither.
FileStates == {"unreadable", "json_and_yaml", "yaml_only", "plain"}

Event(e, f, t, r) == [ev |-> e, file |-> f, type |-> t, result |-> r]

\* Python's None as a value of read_file.
None == [file |-> 0, branch |-> "None"]

\* The name of the lint command validate_file runs for a type.
lint_command(t) == IF t = "yaml" THEN "yamllint" ELSE "jsonlint"

\* The mutant of validate_file: a missing lint command counts as a failure.
validate_file_AbsentFails(t, outcome) ==
    IF t \in {"yaml", "json"} THEN outcome = "pass" ELSE TRUE

\* validate_file's return value, given what running the command did.
validate_file(t, outcome) ==
    IF t \in {"yaml", "json"}
    THEN CASE outcome = "pass"   -> TRUE
           [] outcome = "absent" -> TRUE
           [] outcome = "fail"   -> FALSE
           [] OTHER              -> FALSE
    ELSE TRUE

\* read_file's return value: None, or the canonical text of file f produced
\* by the branch of type t.
read_file(f, t, state) ==
    IF state = "unreadable" THEN None
    ELSE IF t = "yaml"
    THEN IF state \in {"json_and_yaml", "yaml_only"}
         THEN [file |-> f, branch |-> "yaml"] ELSE None
    ELSE IF t = "json"
    THEN IF state = "json_and_yaml"
         THEN [file |-> f, branch |-> "json"] ELSE None
    ELSE [file |-> f, branch |-> "text"]

\* The mutant of type_in_use: the type is detected from file2.
type_in_use_File2(a) ==
    IF a.type # "None" THEN a.type ELSE detect_file_type(a.file2)

\* main.py 165-167: the declared type, else the type detected from file1.
type_in_use(a) ==
    IF a.type # "None" THEN a.type ELSE detect_file_type(a.file1)

\* The mutant of exists_gate: a missing file does not stop the run.
exists_gate_NoExit(found, next) == next

\* main.py 156-161: sys.exit(1) when the path does not exist.
exists_gate(found, next) == IF found THEN next ELSE "exit1"

\* The mutant of read_failed: the run stops only if both reads failed.
read_failed_Both(c1, c2) == c1 = None /\ c2 = None

\* main.py 183: config1 is None or config2 is None
read_failed(c1, c2) == c1 = None \/ c2 = None

\* main.py 172-173: the guard around both validate_file calls.
validation_enabled(a, t) == ~a.no_validation /\ t \in {"yaml", "json"}

\* The variables of the other operations, at rest.
IdleDiff ==
    /\ call = <<>>
    /\ text1 = <<>>
    /\ text2 = <<>>
    /\ raw = <<>>
    /\ diff = <<>>
    /\ html = <<>>

IdleDetect ==
    /\ path = <<>>
    /\ detected = "None"

IdleYaml ==
    /\ doc1 = <<>>
    /\ doc2 = <<>>

IdleMain ==
    /\ args = <<>>
    /\ file_type = "None"
    /\ config1 = None
    /\ config2 = None
    /\ log = <<>>
    /\ exit_status = "running"
    /\ emitted = "none"

Goto(next) ==
    /\ pc' = (IF next = "exit1" THEN "done" ELSE next)
    /\ exit_status' = (IF next = "exit1" THEN "exit1" ELSE exit_status)

InitMain ==
    /\ pc = "exists1"
    /\ args \in ArgSpace
    /\ file_type = "None"
    /\ config1 = None
    /\ config2 = None
    /\ log = <<>>
    /\ exit_status = "running"
    /\ emitted = "none"
    /\ path = <<>>
    /\ detected = "None"
    /\ IdleDiff
    /\ IdleYaml

CheckExists1 ==
    /\ pc = "exists1"
    /\ \E found \in BOOLEAN :
         /\ log' = Append(log, Event("exists", 1, "-", IF found THEN "found" ELSE "missing"))
         /\ Goto(exists_gate(found, "exists2"))
    /\ UNCHANGED <<args, file_type, config1, config2, emitted, detectVars, diffVars, yamlVars>>

CheckExists2 ==
    /\ pc = "exists2"
    /\ \E found \in BOOLEAN :
         /\ log' = Append(log, Event("exists", 2, "-", IF found THEN "found" ELSE "missing"))
         /\ Goto(exists_gate(found, "type"))
    /\ UNCHANGED <<args, file_type, config1, config2, emitted, detectVars, diffVars, yamlVars>>

DetermineType ==
    /\ pc = "type"
    /\ file_type' = type_in_use(args)
    /\ log' = IF args.type = "None"
                 /\ type_in_use(args) # detect_file_type(args.file2)
              THEN Append(log, Event("warning", 0, "-", "types differ"))
              ELSE log
    /\ Goto("validate1")
    /\ UNCHANGED <<args, config1, config2, emitted, detectVars, diffVars, yamlVars>>

\* validate_file(args.file<f>, file_type) under the guard of lines 172-173.
Validate(f, here, next) ==
    /\ pc = here
    /\ IF validation_enabled(args, file_type)
       THEN \E outcome \in LintOutcomes :
              /\ log' = Append(log, Event("lint", f, lint_command(file_type), outcome))
              /\ Goto(IF validate_file(file_type, outcome) THEN next ELSE "exit1")
       ELSE /\ log' = log
            /\ Goto("read1")
    /\ UNCHANGED <<args, file_type, config1, config2, emitted, detectVars, diffVars, yamlVars>>

Validate1 == Validate(1, "validate1", "validate2")

Validate2 == Validate(2, "validate2", "read1")

Read1 ==
    /\ pc = "read1"
    /\ \E state \in FileStates :
         /\ config1' = read_file(1, file_type, state)
         /\ log' = Append(log, Event("read", 1, file_type,
                IF read_file(1, file_type, state) = None THEN "None" ELSE "text"))
    /\ Goto("read2")
    /\ UNCHANGED <<args, file_type, config2, emitted, detectVars, diffVars, yamlVars>>

Read2 ==
    /\ pc = "read2"
    /\ \E state \in FileStates :
         /\ config2' = read_file(2, file_type, state)
         /\ log' = Append(log, Event("read", 2, file_type,
                IF read_file(2, file_type, state) = None THEN "None" ELSE "text"))
    /\ Goto("check")
    /\ UNCHANGED <<args, file_type, config1, emitted, detectVars, diffVars, yamlVars>>

CheckConfigs ==
    /\ pc = "check"
    /\ Goto(IF read_failed(config1, config2) THEN "exit1" ELSE "diff")
    /\ UNCHANGED <<args, file_type, config1, config2, log, emitted, detectVars, diffVars, yamlVars>>

\* main.py 188: generate_diff_html(config1, config2, args.ignore_whitespace)
GenerateDiff ==
    /\ pc = "diff"
    /\ log' = Append(log, Event("diff", 0, "-",
                IF args.ignore_whitespace THEN "ignore_whitespace" ELSE "exact"))
    /\ Goto("output")
    /\ UNCHANGED <<args, file_type, config1, config2, emitted, detectVars, diffVars, yamlVars>>

\* main.py 190-225: the document goes to the --output file or to stdout; a
\* write that fails leaves no document or a partial one and exits with 1.
Output ==
    /\ pc = "output"
    /\ IF args.output
       THEN \E res \in {"file", "none", "partial"} :
              /\ emitted' = res
              /\ log' = Append(log, Event("output", 0, "file",
                                          IF res = "file" THEN "written" ELSE "failed"))
              /\ pc' = "done"
              /\ exit_status' = IF res = "file" THEN "exit0" ELSE "exit1"
       ELSE /\ emitted' = "stdout"
            /\ log' = Append(log, Event("output", 0, "stdout", "written"))
            /\ pc' = "done"
            /\ exit_status' = "exit0"
    /\ UNCHANGED <<args, file_type, config1, config2, detectVars, diffVars, yamlVars>>

Next ==
    \/ CheckExists1
    \/ CheckExists2
    \/ DetermineType
    \/ Validate1
    \/ Validate2
    \/ Read1
    \/ Read2
    \/ CheckConfigs
    \/ GenerateDiff
    \/ Output

Spec == InitMain /\ [][Next]_vars

(***************************************************************************)
(* detect_file_type on its own                                             *)
(***************************************************************************)

Cat3(x, y, z) == x \o y \o z

DirPrefixes == {<<>>, <<"d", "/">>, <<"d", ".", "j", "s", "o", "n", "/">>, <<"/">>}
Stems == {<<>>, <<"a">>, <<".">>, <<".", ".">>, <<".", "a">>, <<"a", ".">>}
Endings ==
    { <<>>,
      <<".", "j", "s", "o", "n">>, <<".", "J", "S", "O", "N">>,
      <<".", "J", "s", "o", "n">>, <<"j", "s", "o", "n">>,
      <<".", "y", "a", "m", "l">>, <<".", "Y", "A", "M", "L">>,
      <<".", "y", "m", "l">>, <<".", "Y", "m", "L">>, <<".", "y", "a", "m">>,
      <<".", "j", "s", "o", "n", "/">>, <<".", "j", "s", "o", "n", ".">>,
      <<".", "y", "m", "l", ".", "a">>, <<".", "c", "o", "n", "f">> }

DetectPaths == {Cat3(d, s, e) : d \in DirPrefixes, s \in Stems, e \in Endings}

InitDetect ==
    /\ pc = "detect"
    /\ path \in DetectPaths
    /\ detected = "None"
    /\ IdleMain
    /\ IdleDiff
    /\ IdleYaml

Detect ==
    /\ pc = "detect"
    /\ detected' = detect_file_type(path)
    /\ pc' = "detected"
    /\ UNCHANGED <<mainVars, diffVars, yamlVars, path>>

NextDetect == Detect

SpecDetect == InitDetect /\ [][NextDetect]_vars


(***************************************************************************)
(* Claims about main()                                                     *)
(***************************************************************************)

LogIndex == 1..Len(log)

Logged(e, f) == {i \in LogIndex : log[i].ev = e /\ log[i].file = f}

FileArg(f) == IF f = 1 THEN args.file1 ELSE args.file2

TypesDiffer ==
    /\ args.type = "None"
    /\ detect_file_type(args.file1) # detect_file_type(args.file2)

\* An error of the kinds FileNotFound, ValidationFailure or ParseError has
\* happened in the run.
InputMissing == \E i \in LogIndex : log[i].ev = "exists" /\ log[i].result = "missing"

LintFailed(f) ==
    \E i \in Logged("lint", f) : log[i].result \in {"fail", "error"}

ReadFailed == \E i \in LogIndex : log[i].ev = "read" /\ log[i].result = "None"

ErrorHappened == InputMissing \/ LintFailed(1) \/ LintFailed(2) \/ ReadFailed

\* C3 as stated: with no declared type, a type mismatch only warns, and each
\* file is read by the branch of its own detected type.
C3_EachFileByItsOwnType ==
    args.type = "None" =>
        /\ \A i \in LogIndex :
             log[i].ev = "read" => log[i].type = detect_file_type(FileArg(log[i].file))
        /\ (TypesDiffer /\ pc = "validate1") => exit_status = "running"

\* C3 amended: with no declared type, a type mismatch only warns (the run goes
\* on to validation), and BOTH files are read by the branch of the type
\* detected from file1.
C3_BothFilesByTypeOfFile1 ==
    args.type = "None" =>
        /\ \A i \in LogIndex :
             log[i].ev = "read" =>
                 /\ log[i].type = detect_file_type(args.file1)
                 /\ log[i].result = "text" =>
                      (IF log[i].file = 1 THEN config1 ELSE config2).branch
                          = detect_file_type(args.file1)
        /\ (TypesDiffer /\ pc = "validate1") =>
               /\ exit_status = "running"
               /\ \E i \in LogIndex : log[i].ev = "warning"
        /\ exit_status = "exit1" =>
               \/ ErrorHappened
               \/ \E i \in LogIndex : log[i].ev = "output" /\ log[i].result = "failed"

\* A run with mismatched detected types that read both files and emitted a diff.
C3_Witness ==
    /\ TypesDiffer
    /\ pc = "done"
    /\ exit_status = "exit0"
    /\ Logged("read", 1) # {}
    /\ Logged("read", 2) # {}
    /\ config2.branch # detect_file_type(args.file2)

\* C4: a missing input, a failed validation or a parse failure ends the run
\* with a non-zero status and without any diff document; a document is
\* emitted only when both files exist, pass validation (or it is skipped) and
\* parse.
C4_ErrorsAreTerminal ==
    /\ ErrorHappened =>
         /\ emitted = "none"
         /\ exit_status # "exit0"
         /\ pc \in {"done", "read2", "check"}
         /\ pc = "done" => exit_status = "exit1"
         /\ \A i \in LogIndex : log[i].ev \notin {"diff", "output"}
    /\ emitted # "none" =>
         /\ \A f \in {1, 2} :
              /\ \E i \in Logged("exists", f) : log[i].result = "found"
              /\ \E i \in Logged("read", f) : log[i].result = "text"
              /\ \A i \in Logged("lint", f) : log[i].result \in {"pass", "absent"}
         /\ config1 # None
         /\ config2 # None

\* A run with validation disabled in which file1 parsed, file2 did not parse
\* as JSON, and the run has ended.
C4_Witness ==
    /\ pc = "done"
    /\ args.no_validation
    /\ file_type = "json"
    /\ config1 # None
    /\ \E i \in Logged("read", 2) : log[i].result = "None"
    /\ exit_status = "exit1"

\* C6: a lint command is run only with validation enabled and a type in use
\* of yaml or json; when the command is absent the run goes on exactly as
\* after a pass.
C6_ValidatorOnlyWhenEnabled ==
    /\ \A i \in LogIndex :
         log[i].ev = "lint" =>
             /\ ~args.no_validation
             /\ file_type \in {"yaml", "json"}
             /\ log[i].type = lint_command(file_type)
    /\ \A i \in LogIndex :
         (log[i].ev = "lint" /\ log[i].result \in {"absent", "pass"}) =>
             IF i = Len(log)
             THEN /\ exit_status = "running"
                  /\ pc = (IF log[i].file = 1 THEN "validate2" ELSE "read1")
             ELSE /\ log[i + 1].ev = (IF log[i].file = 1 THEN "lint" ELSE "read")
                  /\ log[i + 1].file = (IF log[i].file = 1 THEN 2 ELSE 1)

\* A run in which the lint command was absent for both files and a diff
\* document was still emitted.
C6_Witness ==
    /\ \A f \in {1, 2} : \E i \in Logged("lint", f) : log[i].result = "absent"
    /\ pc = "done"
    /\ emitted \in {"stdout", "file"}

\* The position of an event in main's order of stages.
Stage(e) ==
    CASE e.ev = "exists"  -> e.file
      [] e.ev = "warning" -> 3
      [] e.ev = "lint"    -> 3 + e.file
      [] e.ev = "read"    -> 5 + e.file
      [] e.ev = "diff"    -> 8
      [] OTHER            -> 9

\* C9: the stages happen in the order exists(file1), exists(file2),
\* validate(file1), validate(file2), read, diff, output; a missing input ends
\* the run before any validator or read; a failed validation of file1 ends it
\* before file2 is validated and before any read.
C9_StageOrder ==
    /\ \A i, j \in LogIndex : i < j => Stage(log[i]) < Stage(log[j])
    /\ \A j \in LogIndex :
         log[j].ev \notin {"exists"} =>
             \A f \in {1, 2} : \E i \in 1..(j - 1) :
                 log[i].ev = "exists" /\ log[i].file = f /\ log[i].result = "found"
    /\ InputMissing =>
         /\ \A i \in LogIndex : log[i].ev \notin {"lint", "read", "diff", "output"}
         /\ pc = "done" /\ exit_status = "exit1"
    /\ LintFailed(1) =>
         /\ \A i \in LogIndex : log[i].ev \notin {"read", "diff", "output"}
         /\ Logged("lint", 2) = {}
         /\ pc = "done" /\ exit_status = "exit1"
    /\ \A i \in LogIndex :
         log[i].ev \in {"diff", "output"} =>
             Logged("read", 1) # {} /\ Logged("read", 2) # {}
    /\ Logged("read", 2) # {} => Logged("read", 1) # {}
    /\ (Logged("lint", 2) # {} \/ (Logged("read", 1) # {} /\ validation_enabled(args, file_type)))
           => Logged("lint", 1) # {}

\* A complete run: both validations, both reads, the diff and the output.
C9_Witness ==
    /\ pc = "done"
    /\ Logged("lint", 1) # {} /\ Logged("lint", 2) # {}
    /\ Logged("read", 1) # {} /\ Logged("read", 2) # {}
    /\ \E i \in LogIndex : log[i].ev = "output"

(***************************************************************************)
(* Claims about detect_file_type                                           *)
(***************************************************************************)

dot_yaml == <<".", "y", "a", "m", "l">>
dot_yml  == <<".", "y", "m", "l">>
dot_json == <<".", "j", "s", "o", "n">>

LastComponent(p) == SubSeq(p, rfind(p, "/") + 1, Len(p))

\* The component ends in suf (compared in lower case) and something other
\* than dots precedes suf in it.
HasExtension(p, suf) ==
    LET comp == LastComponent(p)
    IN  /\ EndsWith(lower(comp), suf)
        /\ \E k \in 1..(Len(comp) - Len(suf)) : comp[k] # "."

LF == "\n"
CR == "\r"

\* The characters of the texts: a letter, the space, and the two line
\* boundaries of the alphabet. str.isspace() holds of the last three.
Whitespace == {" ", LF, CR}
NormAlphabet == {"a", " ", LF, CR}

\* Longest text the normalizer is run on.
MaxNormLen == 4

\* All texts over an alphabet up to a length.
Texts(alphabet, n) == UNION {[1..k -> alphabet] : k \in 0..n}

\* str.splitlines(): the pieces between line boundaries ("\n", "\r" and
\* "\r\n" as one boundary); a final piece is kept only if it is not empty.
RECURSIVE splitlines_from(_, _, _, _)
splitlines_from(s, i, cur, pieces) ==
    IF i > Len(s)
    THEN IF cur = <<>> THEN pieces ELSE Append(pieces, cur)
    ELSE IF s[i] = LF
    THEN splitlines_from(s, i + 1, <<>>, Append(pieces, cur))
    ELSE IF s[i] = CR
    THEN splitlines_from(s, IF i < Len(s) /\ s[i + 1] = LF THEN i + 2 ELSE i + 1,
                         <<>>, Append(pieces, cur))
    ELSE splitlines_from(s, i + 1, Append(cur, s[i]), pieces)

splitlines(s) == splitlines_from(s, 1, <<>>, <<>>)

\* str.strip(): the text without its leading and trailing whitespace.
strip(s) ==
    LET keep == {i \in 1..Len(s) : s[i] \notin Whitespace}
    IN  IF keep = {} THEN <<>>
        ELSE SubSeq(s, CHOOSE i \in keep : \A j \in keep : i <= j,
                       CHOOSE i \in keep : \A j \in keep : j <= i)

\* sep.join(pieces)
RECURSIVE join(_, _)
join(sep, pieces) ==
    IF pieces = <<>> THEN <<>>
    ELSE IF Len(pieces) = 1 THEN pieces[1]
    ELSE pieces[1] \o sep \o join(sep, Tail(pieces))

\* The pieces of a text between its line feeds, the empty ones included: the
\* lines of a text when only "\n" ends a line.
RECURSIVE split_LF_from(_, _, _, _)
split_LF_from(s, i, cur, pieces) ==
    IF i > Len(s) THEN Append(pieces, cur)
    ELSE IF s[i] = LF THEN split_LF_from(s, i + 1, <<>>, Append(pieces, cur))
    ELSE split_LF_from(s, i + 1, Append(cur, s[i]), pieces)

split_LF(s) == split_LF_from(s, 1, <<>>, <<>>)

\* '\n'.join(line.strip() for line in text.splitlines())
normalize(s) ==
    LET lines == splitlines(s)
    IN  join(<<LF>>, [k \in 1..Len(lines) |-> strip(lines[k])])

InitNorm ==
    /\ pc = "norm"
    /\ call \in Texts(NormAlphabet, MaxNormLen)
    /\ text1 = <<>>
    /\ text2 = <<>>
    /\ raw = <<>>
    /\ diff = <<>>
    /\ html = <<>>
    /\ IdleMain
    /\ IdleDetect
    /\ IdleYaml

\* The normalizer applied to a text.
NormalizeOnce ==
    /\ pc = "norm"
    /\ text1' = normalize(call)
    /\ pc' = "normalized"
    /\ UNCHANGED <<mainVars, detectVars, yamlVars, call, text2, raw, diff, html>>

\* The normalizer applied to its own result.
NormalizeTwice ==
    /\ pc = "normalized"
    /\ text2' = normalize(text1)
    /\ pc' = "renormalized"
    /\ UNCHANGED <<mainVars, detectVars, yamlVars, call, text1, raw, diff, html>>

NextNorm == NormalizeOnce \/ NormalizeTwice

SpecNorm == InitNorm /\ [][NextNorm]_vars

\* C2: normalizing a normalized text changes nothing.
C2_Idempotent == pc = "renormalized" => text2 = text1


(***************************************************************************)
(* The diff engine: diff_match_patch.diff_main and diff_cleanupSemantic,   *)
(* as generate_diff_html calls them (lines 143-145). An edit script is a   *)
(* sequence of spans [op, text]. Positions are Python's (from 0).          *)
(***************************************************************************)

DIFF_DELETE == "DELETE"
DIFF_INSERT == "INSERT"
DIFF_EQUAL == "EQUAL"

Span(op, text) == [op |-> op, text |-> text]

\* Python list and string operations, on positions from 0.
At(l, p) == l[p + 1]
Slice(l, a, b) == SubSeq(l, a + 1, b)
From(l, a) == SubSeq(l, a + 1, Len(l))
SetAt(l, p, x) == [l EXCEPT ![p + 1] = x]
InsertAt(l, p, x) == Slice(l, 0, p) \o <<x>> \o From(l, p)
DeleteAt(l, p) == Slice(l, 0, p) \o From(l, p + 1)
Splice(l, a, b, new) == Slice(l, 0, a) \o new \o From(l, b)
Max(a, b) == IF a >= b THEN a ELSE b
Min(a, b) == IF a <= b THEN a ELSE b

\* str.find(sub, start): the first position >= start where sub occurs, or -1.
Find(text, sub, start) ==
    LET hits == {j \in start..(Len(text) - Len(sub)) : Slice(text, j, j + Len(sub)) = sub}
    IN  IF hits = {} THEN -1 ELSE CHOOSE j \in hits : \A k \in hits : j <= k

StartsWith(text, pre) == Len(text) >= Len(pre) /\ Slice(text, 0, Len(pre)) = pre

\* diff_commonPrefix: the number of characters two texts share at their start.
diff_commonPrefix(a, b) ==
    LET same == {n \in 0..Min(Len(a), Len(b)) : Slice(a, 0, n) = Slice(b, 0, n)}
    IN  CHOOSE n \in same : \A m \in same : m <= n

\* diff_commonSuffix: the number of characters two texts share at their end.
diff_commonSuffix(a, b) ==
    LET same == {n \in 0..Min(Len(a), Len(b)) : From(a, Len(a) - n) = From(b, Len(b) - n)}
    IN  CHOOSE n \in same : \A m \in same : m <= n

\* diff_commonOverlap: the longest suffix of a that is a prefix of b.
diff_commonOverlap(a, b) ==
    LET over == {n \in 0..Min(Len(a), Len(b)) : From(a, Len(a) - n) = Slice(b, 0, n)}
    IN  CHOOSE n \in over : \A m \in over : m <= n

\* diff_cleanupMerge, first pass: one turn of its while loop. The state holds
\* the list, the pointer and the four accumulators.
MergeStep(st) ==
    LET diffs == st.diffs
        pointer == st.pointer
        cur == At(diffs, pointer)
    IN  IF cur.op = DIFF_INSERT
        THEN [st EXCEPT !.count_insert = @ + 1, !.text_insert = @ \o cur.text,
                        !.pointer = @ + 1]
        ELSE IF cur.op = DIFF_DELETE
        THEN [st EXCEPT !.count_delete = @ + 1, !.text_delete = @ \o cur.text,
                        !.pointer = @ + 1]
        ELSE
          LET cleared(d, ptr) ==
                  [diffs |-> d, pointer |-> ptr, count_delete |-> 0,
                   count_insert |-> 0, text_delete |-> <<>>, text_insert |-> <<>>]
          IN  IF st.count_delete + st.count_insert > 1
              THEN
                LET both == st.count_delete # 0 /\ st.count_insert # 0
                    \* Factor out a common prefix.
                    pre == IF both THEN diff_commonPrefix(st.text_insert, st.text_delete)
                           ELSE 0
                    x == pointer - st.count_delete - st.count_insert - 1
                    toPrev == x >= 0 /\ At(diffs, x).op = DIFF_EQUAL
                    diffs1 == IF pre = 0 THEN diffs
                              ELSE IF toPrev
                              THEN SetAt(diffs, x,
                                     Span(At(diffs, x).op,
                                          At(diffs, x).text \o Slice(st.text_insert, 0, pre)))
                              ELSE InsertAt(diffs, 0,
                                     Span(DIFF_EQUAL, Slice(st.text_insert, 0, pre)))
                    pointer1 == IF pre # 0 /\ ~toPrev THEN pointer + 1 ELSE pointer
                    ins1 == From(st.text_insert, pre)
                    del1 == From(st.text_delete, pre)
                    \* Factor out a common suffix.
                    suf == IF both THEN diff_commonSuffix(ins1, del1) ELSE 0
                    diffs2 == IF suf = 0 THEN diffs1
                              ELSE SetAt(diffs1, pointer1,
                                     Span(At(diffs1, pointer1).op,
                                          From(ins1, Len(ins1) - suf)
                                              \o At(diffs1, pointer1).text))
                    ins2 == Slice(ins1, 0, Len(ins1) - suf)
                    del2 == Slice(del1, 0, Len(del1) - suf)
                    \* Replace the run of edits by the merged ones.
                    new_ops == (IF Len(del2) # 0 THEN <<Span(DIFF_DELETE, del2)>> ELSE <<>>)
                               \o (IF Len(ins2) # 0 THEN <<Span(DIFF_INSERT, ins2)>> ELSE <<>>)
                    pointer2 == pointer1 - (st.count_delete + st.count_insert)
                    diffs3 == Splice(diffs2, pointer2,
                                     pointer2 + st.count_delete + st.count_insert, new_ops)
                IN  cleared(diffs3, pointer2 + Len(new_ops) + 1)
              ELSE IF pointer # 0 /\ At(diffs, pointer - 1).op = DIFF_EQUAL
              THEN \* Merge this equality with the previous one.
                   cleared(DeleteAt(SetAt(diffs, pointer - 1,
                                      Span(At(diffs, pointer - 1).op,
                                           At(diffs, pointer - 1).text \o cur.text)),
                                    pointer),
                           pointer)
              ELSE cleared(diffs, pointer + 1)

RECURSIVE MergeLoop(_)
MergeLoop(st) == IF st.pointer < Len(st.diffs) THEN MergeLoop(MergeStep(st)) ELSE st

\* diff_cleanupMerge, second pass: one turn of the loop that shifts a single
\* edit between two equalities sideways to eliminate an equality.
ShiftStep(st) ==
    LET diffs == st.diffs
        pointer == st.pointer
        prev == At(diffs, pointer - 1)
        cur == At(diffs, pointer)
        next == At(diffs, pointer + 1)
    IN  IF prev.op = DIFF_EQUAL /\ next.op = DIFF_EQUAL
        THEN IF EndsWith(cur.text, prev.text)
             THEN LET shifted ==
                        IF prev.text # <<>>
                        THEN SetAt(SetAt(diffs, pointer,
                                     Span(cur.op, prev.text
                                          \o Slice(cur.text, 0, Len(cur.text) - Len(prev.text)))),
                                   pointer + 1, Span(next.op, prev.text \o next.text))
                        ELSE diffs
                  IN  [diffs |-> DeleteAt(shifted, pointer - 1),
                       pointer |-> pointer + 1, changes |-> TRUE]
             ELSE IF StartsWith(cur.text, next.text)
             THEN [diffs |-> DeleteAt(
                               SetAt(SetAt(diffs, pointer - 1,
                                           Span(prev.op, prev.text \o next.text)),
                                     pointer,
                                     Span(cur.op, From(cur.text, Len(next.text)) \o next.text)),
                               pointer + 1),
                   pointer |-> pointer + 1, changes |-> TRUE]
             ELSE [st EXCEPT !.pointer = @ + 1]
        ELSE [st EXCEPT !.pointer = @ + 1]

RECURSIVE ShiftLoop(_)
ShiftLoop(st) == IF st.pointer < Len(st.diffs) - 1 THEN ShiftLoop(ShiftStep(st)) ELSE st

\* diff_cleanupMerge: reorder and merge like edit sections, merge equalities;
\* run again if the second pass shifted anything.
RECURSIVE diff_cleanupMerge(_)
diff_cleanupMerge(diffs) ==
    LET \* Remove the dummy entry at the end.
        Popped(merged) ==
            IF merged[Len(merged)].text = <<>>
            THEN Slice(merged, 0, Len(merged) - 1) ELSE merged
        \* If shifts were made, the diff needs reordering and another shift sweep.
        Again(shifted) ==
            IF shifted.changes THEN diff_cleanupMerge(shifted.diffs) ELSE shifted.diffs
    IN  Again(ShiftLoop(
            [diffs |-> Popped(MergeLoop(
                           [diffs |-> Append(diffs, Span(DIFF_EQUAL, <<>>)),
                            pointer |-> 0, count_delete |-> 0, count_insert |-> 0,
                            text_delete |-> <<>>, text_insert |-> <<>>]).diffs),
             pointer |-> 1, changes |-> FALSE]))


\* No half match (Python's None).
NoMatch == <<>>

\* diff_halfMatchI: does a substring of shorttext exist within longtext such
\* that the substring is at least half the length of longtext? The seed is
\* the quarter of longtext starting at i. Returns <<longtext_a, longtext_b,
\* shorttext_a, shorttext_b, common>> or NoMatch.
RECURSIVE HalfMatchScan(_, _, _, _, _)
HalfMatchScan(longtext, shorttext, i, j, best) ==
    IF j = -1 THEN best
    ELSE
      LET seed == Slice(longtext, i, i + Len(longtext) \div 4)
          prefixLength == diff_commonPrefix(From(longtext, i), From(shorttext, j))
          suffixLength == diff_commonSuffix(Slice(longtext, 0, i), Slice(shorttext, 0, j))
          better == Len(best[5]) < suffixLength + prefixLength
          best1 == IF better
                   THEN << Slice(longtext, 0, i - suffixLength),
                           From(longtext, i + prefixLength),
                           Slice(shorttext, 0, j - suffixLength),
                           From(shorttext, j + prefixLength),
                           Slice(shorttext, j - suffixLength, j)
                               \o Slice(shorttext, j, j + prefixLength) >>
                   ELSE best
      IN  HalfMatchScan(longtext, shorttext, i, Find(shorttext, seed, j + 1), best1)

diff_halfMatchI(longtext, shorttext, i) ==
    LET seed == Slice(longtext, i, i + Len(longtext) \div 4)
        best == HalfMatchScan(longtext, shorttext, i, Find(shorttext, seed, 0),
                              <<<<>>, <<>>, <<>>, <<>>, <<>>>>)
    IN  IF Len(best[5]) * 2 >= Len(longtext) THEN best ELSE NoMatch

\* diff_halfMatch (Diff_Timeout keeps its default of 1.0, so the speedup is
\* on): <<text1_a, text1_b, text2_a, text2_b, mid_common>> or NoMatch.
diff_halfMatch(t1, t2) ==
    LET swap == ~(Len(t1) > Len(t2))
        longtext == IF swap THEN t2 ELSE t1
        shorttext == IF swap THEN t1 ELSE t2
        \* A half match is valid: put it back in the order of the arguments.
        Oriented(hm) ==
            IF swap THEN <<hm[3], hm[4], hm[1], hm[2], hm[5]>> ELSE hm
        \* hm1 from the second quarter, hm2 from the third: the longer one.
        Longest(hm1, hm2) ==
            IF hm1 = NoMatch /\ hm2 = NoMatch THEN NoMatch
            ELSE Oriented(IF hm2 = NoMatch THEN hm1
                          ELSE IF hm1 = NoMatch THEN hm2
                          ELSE IF Len(hm1[5]) > Len(hm2[5]) THEN hm1 ELSE hm2)
    IN  IF Len(longtext) < 4 \/ Len(shorttext) * 2 < Len(longtext) THEN NoMatch
        ELSE Longest(diff_halfMatchI(longtext, shorttext, (Len(longtext) + 3) \div 4),
                     diff_halfMatchI(longtext, shorttext, (Len(longtext) + 1) \div 2))

\* diff_bisect's snake: follow the diagonal while the texts agree, reading
\* text1 and text2 forwards (front path) or backwards (reverse path).
RECURSIVE Snake(_, _, _, _, _)
Snake(t1, t2, x, y, reverse) ==
    IF x < Len(t1) /\ y < Len(t2)
       /\ (IF reverse THEN At(t1, Len(t1) - x - 1) = At(t2, Len(t2) - y - 1)
                      ELSE At(t1, x) = At(t2, y))
    THEN Snake(t1, t2, x + 1, y + 1, reverse)
    ELSE x

\* One step of the front path on diagonal k1. The state carries v1, v2, the
\* four loop offsets and, once the paths overlap, the split point.
FrontStep(t1, t2, d, k1, st) ==
    LET max_d == (Len(t1) + Len(t2) + 1) \div 2
        delta == Len(t1) - Len(t2)
        front == delta % 2 # 0
        k1_offset == max_d + k1
        x0 == IF k1 = -d \/ (k1 # d /\ st.v1[k1_offset - 1] < st.v1[k1_offset + 1])
              THEN st.v1[k1_offset + 1]
              ELSE st.v1[k1_offset - 1] + 1
        x1 == Snake(t1, t2, x0, x0 - k1, FALSE)
        y1 == x1 - k1
        st1 == [st EXCEPT !.v1[k1_offset] = x1]
        k2_offset == max_d + delta - k1
    IN  IF x1 > Len(t1) THEN [st1 EXCEPT !.k1end = @ + 2]
        ELSE IF y1 > Len(t2) THEN [st1 EXCEPT !.k1start = @ + 2]
        ELSE IF front /\ k2_offset >= 0 /\ k2_offset < 2 * max_d
                /\ st1.v2[k2_offset] # -1
                /\ x1 >= Len(t1) - st1.v2[k2_offset]
        THEN [st1 EXCEPT !.found = TRUE, !.x = x1, !.y = y1]
        ELSE st1

\* One step of the reverse path on diagonal k2.
ReverseStep(t1, t2, d, k2, st) ==
    LET max_d == (Len(t1) + Len(t2) + 1) \div 2
        delta == Len(t1) - Len(t2)
        front == delta % 2 # 0
        k2_offset == max_d + k2
        x0 == IF k2 = -d \/ (k2 # d /\ st.v2[k2_offset - 1] < st.v2[k2_offset + 1])
              THEN st.v2[k2_offset + 1]
              ELSE st.v2[k2_offset - 1] + 1
        x2 == Snake(t1, t2, x0, x0 - k2, TRUE)
        y2 == x2 - k2
        st1 == [st EXCEPT !.v2[k2_offset] = x2]
        k1_offset == max_d + delta - k2
        x1 == st1.v1[k1_offset]
        y1 == max_d + x1 - k1_offset
    IN  IF x2 > Len(t1) THEN [st1 EXCEPT !.k2end = @ + 2]
        ELSE IF y2 > Len(t2) THEN [st1 EXCEPT !.k2start = @ + 2]
        ELSE IF ~front /\ k1_offset >= 0 /\ k1_offset < 2 * max_d
                /\ st1.v1[k1_offset] # -1
                /\ x1 >= Len(t1) - x2
        THEN [st1 EXCEPT !.found = TRUE, !.x = x1, !.y = y1]
        ELSE st1

\* for k in range(k, stop, 2): the steps of one path, until an overlap.
RECURSIVE PathLoop(_, _, _, _, _, _, _)
PathLoop(t1, t2, d, k, stop, reverse, st) ==
    IF st.found \/ k >= stop THEN st
    ELSE PathLoop(t1, t2, d, k + 2, stop, reverse,
                  IF reverse THEN ReverseStep(t1, t2, d, k, st)
                             ELSE FrontStep(t1, t2, d, k, st))

\* for d in range(max_d): walk the front path, then the reverse path, one
\* step further, unless the deadline is reached.
RECURSIVE BisectLoop(_, _, _, _, _)
BisectLoop(t1, t2, d, deadline_passed, st) ==
    IF st.found \/ deadline_passed \/ d >= (Len(t1) + Len(t2) + 1) \div 2 THEN st
    ELSE
      LET Reverse(st1) ==
              IF st1.found THEN st1
              ELSE PathLoop(t1, t2, d, -d + st1.k2start, d + 1 - st1.k2end, TRUE, st1)
      IN  BisectLoop(t1, t2, d + 1, deadline_passed,
                     Reverse(PathLoop(t1, t2, d, -d + st.k1start, d + 1 - st.k1end,
                                      FALSE, st)))

RECURSIVE diff_main(_, _, _)

\* diff_bisectSplit: diff the two halves around the split point.
diff_bisectSplit(t1, t2, x, y, deadline_passed) ==
    diff_main(Slice(t1, 0, x), Slice(t2, 0, y), deadline_passed)
        \o diff_main(From(t1, x), From(t2, y), deadline_passed)

\* diff_bisect: find the middle snake of a diff (Myers), split the problem in
\* two and diff each half; when the deadline is reached or the texts have
\* nothing in common, delete text1 and insert text2.
diff_bisect(t1, t2, deadline_passed) ==
    LET max_d == (Len(t1) + Len(t2) + 1) \div 2
        v == [i \in 0..(2 * max_d - 1) |-> IF i = max_d + 1 THEN 0 ELSE -1]
        Split(st) ==
            IF st.found THEN diff_bisectSplit(t1, t2, st.x, st.y, deadline_passed)
            ELSE <<Span(DIFF_DELETE, t1), Span(DIFF_INSERT, t2)>>
    IN  Split(BisectLoop(t1, t2, 0, deadline_passed,
                         [v1 |-> v, v2 |-> v, k1start |-> 0, k1end |-> 0,
                          k2start |-> 0, k2end |-> 0, found |-> FALSE, x |-> 0, y |-> 0]))

\* diff_compute: the differences of two texts that share no prefix or suffix.
\* (Texts of more than 100 characters each take the line-mode speedup first;
\* the texts modelled here are shorter.)
diff_compute(t1, t2, deadline_passed) ==
    IF t1 = <<>> THEN <<Span(DIFF_INSERT, t2)>>
    ELSE IF t2 = <<>> THEN <<Span(DIFF_DELETE, t1)>>
    ELSE
      LET longer == Len(t1) > Len(t2)
          longtext == IF longer THEN t1 ELSE t2
          shorttext == IF longer THEN t2 ELSE t1
          i == Find(longtext, shorttext, 0)
          op == IF longer THEN DIFF_DELETE ELSE DIFF_INSERT
          \* With a half match, diff the two pairs of halves; else bisect.
          Halves(hm) ==
              IF hm # NoMatch
              THEN diff_main(hm[1], hm[3], deadline_passed)
                       \o <<Span(DIFF_EQUAL, hm[5])>>
                       \o diff_main(hm[2], hm[4], deadline_passed)
              ELSE diff_bisect(t1, t2, deadline_passed)
      IN  IF i # -1
          THEN << Span(op, Slice(longtext, 0, i)), Span(DIFF_EQUAL, shorttext),
                  Span(op, From(longtext, i + Len(shorttext))) >>
          ELSE IF Len(shorttext) = 1
          THEN <<Span(DIFF_DELETE, t1), Span(DIFF_INSERT, t2)>>
          ELSE Halves(diff_halfMatch(t1, t2))

\* diff_main: the differences between two texts. deadline_passed says whether
\* the deadline (Diff_Timeout, one second after the call) has been reached
\* when diff_bisect looks at the clock.
diff_main(t1, t2, deadline_passed) ==
    IF t1 = t2
    THEN IF t1 # <<>> THEN <<Span(DIFF_EQUAL, t1)>> ELSE <<>>
    ELSE
      LET pre == diff_commonPrefix(t1, t2)
          commonprefix == Slice(t1, 0, pre)
          a1 == From(t1, pre)
          a2 == From(t2, pre)
          suf == diff_commonSuffix(a1, a2)
          commonsuffix == From(a1, Len(a1) - suf)
          b1 == Slice(a1, 0, Len(a1) - suf)
          b2 == Slice(a2, 0, Len(a2) - suf)
          diffs == diff_compute(b1, b2, deadline_passed)
      IN  diff_cleanupMerge(
              (IF commonprefix # <<>> THEN <<Span(DIFF_EQUAL, commonprefix)>> ELSE <<>>)
              \o diffs
              \o (IF commonsuffix # <<>> THEN <<Span(DIFF_EQUAL, commonsuffix)>> ELSE <<>>))


\* str.isalnum() and str.isspace() on the characters of the models.
IsAlnum(c) == c \in {"a", "b", "x", "1"}
IsSpace(c) == c \in Whitespace

\* BLANKLINEEND, \n\r?\n$ : the text ends in a blank line.
BlankLineEnd(one) ==
    \/ EndsWith(one, <<LF, LF>>)
    \/ EndsWith(one, <<LF, CR, LF>>)

\* BLANKLINESTART, ^\r?\n\r?\n : the text starts with a blank line.
BlankLineStart(two) ==
    \E lead \in {<<LF, LF>>, <<LF, CR, LF>>, <<CR, LF, LF>>, <<CR, LF, CR, LF>>} :
        StartsWith(two, lead)

\* diff_cleanupSemanticScore: how well the boundary between two texts falls
\* on a logical boundary, from 6 (an edge) to 0.
diff_cleanupSemanticScore(one, two) ==
    IF one = <<>> \/ two = <<>> THEN 6
    ELSE
      LET char1 == one[Len(one)]
          char2 == two[1]
          nonAlphaNumeric1 == ~IsAlnum(char1)
          nonAlphaNumeric2 == ~IsAlnum(char2)
          whitespace1 == nonAlphaNumeric1 /\ IsSpace(char1)
          whitespace2 == nonAlphaNumeric2 /\ IsSpace(char2)
          lineBreak1 == whitespace1 /\ char1 \in {CR, LF}
          lineBreak2 == whitespace2 /\ char2 \in {CR, LF}
          blankLine1 == lineBreak1 /\ BlankLineEnd(one)
          blankLine2 == lineBreak2 /\ BlankLineStart(two)
      IN  IF blankLine1 \/ blankLine2 THEN 5
          ELSE IF lineBreak1 \/ lineBreak2 THEN 4
          ELSE IF nonAlphaNumeric1 /\ ~whitespace1 /\ whitespace2 THEN 3
          ELSE IF whitespace1 \/ whitespace2 THEN 2
          ELSE IF nonAlphaNumeric1 \/ nonAlphaNumeric2 THEN 1
          ELSE 0

\* diff_cleanupSemanticLossless, the inner loop: step the edit one character
\* to the right while it can go, keeping the best scoring position.
RECURSIVE SlideRight(_, _, _, _)
SlideRight(equality1, edit, equality2, best) ==
    IF edit # <<>> /\ equality2 # <<>> /\ edit[1] = equality2[1]
    THEN LET e1 == Append(equality1, edit[1])
             ed == Append(Tail(edit), equality2[1])
             e2 == Tail(equality2)
             score == diff_cleanupSemanticScore(e1, ed)
                      + diff_cleanupSemanticScore(ed, e2)
         IN  SlideRight(e1, ed, e2,
                        IF score >= best.score
                        THEN [score |-> score, equality1 |-> e1, edit |-> ed,
                              equality2 |-> e2]
                        ELSE best)
    ELSE best

\* diff_cleanupSemanticLossless: one turn of its while loop.
LosslessStep(st) ==
    LET diffs == st.diffs
        pointer == st.pointer
        prev == At(diffs, pointer - 1)
        cur == At(diffs, pointer)
        next == At(diffs, pointer + 1)
    IN  IF prev.op = DIFF_EQUAL /\ next.op = DIFF_EQUAL
        THEN
          LET \* First, shift the edit as far left as possible.
              commonOffset == diff_commonSuffix(prev.text, cur.text)
              commonString == From(cur.text, Len(cur.text) - commonOffset)
              equality1 == Slice(prev.text, 0, Len(prev.text) - commonOffset)
              edit == commonString \o Slice(cur.text, 0, Len(cur.text) - commonOffset)
              equality2 == commonString \o next.text
              \* Save an improvement back to the diff.
              Saved(best) ==
                  LET diffs1 == IF best.equality1 # <<>>
                                THEN SetAt(diffs, pointer - 1, Span(prev.op, best.equality1))
                                ELSE DeleteAt(diffs, pointer - 1)
                      pointer1 == IF best.equality1 # <<>> THEN pointer ELSE pointer - 1
                      diffs2 == SetAt(diffs1, pointer1, Span(cur.op, best.edit))
                      diffs3 == IF best.equality2 # <<>>
                                THEN SetAt(diffs2, pointer1 + 1,
                                           Span(next.op, best.equality2))
                                ELSE DeleteAt(diffs2, pointer1 + 1)
                      pointer2 == IF best.equality2 # <<>> THEN pointer1 ELSE pointer1 - 1
                  IN  IF prev.text # best.equality1
                      THEN [diffs |-> diffs3, pointer |-> pointer2 + 1]
                      ELSE [st EXCEPT !.pointer = @ + 1]
              \* Second, step right, looking for the best fit.
          IN  Saved(SlideRight(equality1, edit, equality2,
                      [score |-> diff_cleanupSemanticScore(equality1, edit)
                                 + diff_cleanupSemanticScore(edit, equality2),
                       equality1 |-> equality1, edit |-> edit,
                       equality2 |-> equality2]))
        ELSE [st EXCEPT !.pointer = @ + 1]

RECURSIVE LosslessLoop(_)
LosslessLoop(st) ==
    IF st.pointer < Len(st.diffs) - 1 THEN LosslessLoop(LosslessStep(st)) ELSE st

\* diff_cleanupSemanticLossless: shift single edits surrounded by equalities
\* sideways to align them to word and line boundaries.
diff_cleanupSemanticLossless(diffs) == LosslessLoop([diffs |-> diffs, pointer |-> 1]).diffs

\* diff_cleanupSemantic, first loop: one turn. equalities is the stack of the
\* positions of equalities; lastEquality is <<>> for Python's None (both are
\* false in the test that reads it).
SemanticStep(st) ==
    LET diffs == st.diffs
        pointer == st.pointer
        cur == At(diffs, pointer)
    IN  IF cur.op = DIFF_EQUAL
        THEN [st EXCEPT !.equalities = Append(@, pointer),
                        !.length_insertions1 = st.length_insertions2,
                        !.length_insertions2 = 0,
                        !.length_deletions1 = st.length_deletions2,
                        !.length_deletions2 = 0,
                        !.lastEquality = cur.text,
                        !.pointer = @ + 1]
        ELSE
          LET ins2 == IF cur.op = DIFF_INSERT THEN st.length_insertions2 + Len(cur.text)
                      ELSE st.length_insertions2
              del2 == IF cur.op = DIFF_INSERT THEN st.length_deletions2
                      ELSE st.length_deletions2 + Len(cur.text)
              top == st.equalities[Len(st.equalities)]
              \* Duplicate the record: a deletion, then an insertion, of the equality.
              split == SetAt(InsertAt(diffs, top, Span(DIFF_DELETE, st.lastEquality)),
                             top + 1, Span(DIFF_INSERT, At(diffs, top).text))
              \* Throw away the equality just deleted and the previous one.
              popped1 == Slice(st.equalities, 0, Len(st.equalities) - 1)
              popped2 == IF Len(popped1) > 0 THEN Slice(popped1, 0, Len(popped1) - 1)
                         ELSE popped1
          IN  IF /\ st.lastEquality # <<>>
                 /\ Len(st.lastEquality) <= Max(st.length_insertions1, st.length_deletions1)
                 /\ Len(st.lastEquality) <= Max(ins2, del2)
              THEN [diffs |-> split,
                    equalities |-> popped2,
                    pointer |-> (IF Len(popped2) > 0 THEN popped2[Len(popped2)] ELSE -1) + 1,
                    length_insertions1 |-> 0, length_deletions1 |-> 0,
                    length_insertions2 |-> 0, length_deletions2 |-> 0,
                    lastEquality |-> <<>>, changes |-> TRUE]
              ELSE [st EXCEPT !.length_insertions2 = ins2, !.length_deletions2 = del2,
                              !.pointer = @ + 1]

RECURSIVE SemanticLoop(_)
SemanticLoop(st) ==
    IF st.pointer < Len(st.diffs) THEN SemanticLoop(SemanticStep(st)) ELSE st

\* diff_cleanupSemantic, last loop: one turn. An overlap between a deletion
\* and the insertion after it becomes an equality if it is at least half of
\* either edit.
OverlapStep(st) ==
    LET diffs == st.diffs
        pointer == st.pointer
        deletion == At(diffs, pointer - 1).text
        insertion == At(diffs, pointer).text
        overlap_length1 == diff_commonOverlap(deletion, insertion)
        overlap_length2 == diff_commonOverlap(insertion, deletion)
    IN  IF At(diffs, pointer - 1).op = DIFF_DELETE /\ At(diffs, pointer).op = DIFF_INSERT
        THEN IF overlap_length1 >= overlap_length2
             THEN IF overlap_length1 * 2 >= Len(deletion)
                     \/ overlap_length1 * 2 >= Len(insertion)
                  THEN [diffs |->
                          SetAt(SetAt(InsertAt(diffs, pointer,
                                        Span(DIFF_EQUAL, Slice(insertion, 0, overlap_length1))),
                                      pointer - 1,
                                      Span(DIFF_DELETE,
                                           Slice(deletion, 0, Len(deletion) - overlap_length1))),
                                pointer + 1,
                                Span(DIFF_INSERT, From(insertion, overlap_length1))),
                        pointer |-> pointer + 3]
                  ELSE [st EXCEPT !.pointer = @ + 2]
             ELSE IF overlap_length2 * 2 >= Len(deletion)
                     \/ overlap_length2 * 2 >= Len(insertion)
                  THEN [diffs |->
                          SetAt(SetAt(InsertAt(diffs, pointer,
                                        Span(DIFF_EQUAL, Slice(deletion, 0, overlap_length2))),
                                      pointer - 1,
                                      Span(DIFF_INSERT,
                                           Slice(insertion, 0, Len(insertion) - overlap_length2))),
                                pointer + 1,
                                Span(DIFF_DELETE, From(deletion, overlap_length2))),
                        pointer |-> pointer + 3]
                  ELSE [st EXCEPT !.pointer = @ + 2]
        ELSE [st EXCEPT !.pointer = @ + 1]

RECURSIVE OverlapLoop(_)
OverlapLoop(st) ==
    IF st.pointer < Len(st.diffs) THEN OverlapLoop(OverlapStep(st)) ELSE st

\* diff_cleanupSemantic: eliminate the equalities that are no longer than the
\* edits on both sides of them, normalize, align the edits, and extract the
\* overlaps between deletions and insertions.
diff_cleanupSemantic(diffs) ==
    LET first == SemanticLoop([diffs |-> diffs, equalities |-> <<>>, pointer |-> 0,
                               length_insertions1 |-> 0, length_deletions1 |-> 0,
                               length_insertions2 |-> 0, length_deletions2 |-> 0,
                               lastEquality |-> <<>>, changes |-> FALSE])
        merged == IF first.changes THEN diff_cleanupMerge(first.diffs) ELSE first.diffs
        aligned == diff_cleanupSemanticLossless(merged)
    IN  OverlapLoop([diffs |-> aligned, pointer |-> 1]).diffs


\* diff_prettyHtml's escaping of one character.
HtmlEscape(c) ==
    CASE c = "&" -> "&amp;" [] c = "<" -> "&lt;" [] c = ">" -> "&gt;"
      [] c = LF -> "&para;<br>" [] OTHER -> c

\* diff_prettyHtml: each span as its opening tag, its escaped text and its
\* closing tag, in script order.
RECURSIVE diff_prettyHtml(_)
diff_prettyHtml(diffs) ==
    IF diffs = <<>> THEN <<>>
    ELSE LET d == Head(diffs)
             text == [i \in 1..Len(d.text) |-> HtmlEscape(d.text[i])]
             open == CASE d.op = DIFF_INSERT -> "<ins style=\"background:#e6ffe6;\">"
                       [] d.op = DIFF_DELETE -> "<del style=\"background:#ffe6e6;\">"
                       [] OTHER -> "<span>"
             close == CASE d.op = DIFF_INSERT -> "</ins>"
                        [] d.op = DIFF_DELETE -> "</del>"
                        [] OTHER -> "</span>"
         IN  <<open>> \o text \o <<close>> \o diff_prettyHtml(Tail(diffs))

(***************************************************************************)
(* generate_diff_html(text1, text2, ignore_whitespace)                     *)
(***************************************************************************)

\* Longest text of letters, and longest text with whitespace, that
\* generate_diff_html is called on.
MaxDiffLen == 5
MaxWsLen == 3

DiffInputs ==
    (Texts({"a", "b"}, MaxDiffLen) \X Texts({"a", "b"}, MaxDiffLen))
        \cup (Texts({"a", " ", LF}, MaxWsLen) \X Texts({"a", " ", LF}, MaxWsLen))

InitDiff ==
    /\ pc = "gdh_normalize"
    /\ \E in \in DiffInputs, iw \in BOOLEAN :
         /\ call = [text1 |-> in[1], text2 |-> in[2], ignore_whitespace |-> iw]
         /\ text1 = in[1]
         /\ text2 = in[2]
    /\ raw = <<>>
    /\ diff = <<>>
    /\ html = <<>>
    /\ IdleMain
    /\ IdleDetect
    /\ IdleYaml

\* The mutant of normalize_if: only text1 is normalized.
normalize_if_OnlyText1(iw, t1, t2) ==
    IF iw THEN <<normalize(t1), t2>> ELSE <<t1, t2>>

\* Lines 139-141: both texts normalized if ignore_whitespace, else unchanged.
normalize_if(iw, t1, t2) ==
    IF iw THEN <<normalize(t1), normalize(t2)>> ELSE <<t1, t2>>

\* The mutant of diff_call: the texts are handed over in the wrong order.
diff_call_Swapped(t1, t2, deadline_passed) == diff_main(t2, t1, deadline_passed)

\* Line 144: diff = dmp.diff_main(text1, text2)
diff_call(t1, t2, deadline_passed) == diff_main(t1, t2, deadline_passed)

NormalizeTexts ==
    /\ pc = "gdh_normalize"
    /\ text1' = normalize_if(call.ignore_whitespace, text1, text2)[1]
    /\ text2' = normalize_if(call.ignore_whitespace, text1, text2)[2]
    /\ pc' = "gdh_diff_main"
    /\ UNCHANGED <<mainVars, detectVars, yamlVars, call, raw, diff, html>>

DiffMain ==
    /\ pc = "gdh_diff_main"
    /\ \E deadline_passed \in BOOLEAN :
         /\ diff' = diff_call(text1, text2, deadline_passed)
         /\ raw' = diff'
    /\ pc' = "gdh_cleanup"
    /\ UNCHANGED <<mainVars, detectVars, yamlVars, call, text1, text2, html>>

CleanupSemantic ==
    /\ pc = "gdh_cleanup"
    /\ diff' = diff_cleanupSemantic(diff)
    /\ pc' = "gdh_html"
    /\ UNCHANGED <<mainVars, detectVars, yamlVars, call, text1, text2, raw, html>>

PrettyHtml ==
    /\ pc = "gdh_html"
    /\ html' = diff_prettyHtml(diff)
    /\ pc' = "gdh_return"
    /\ UNCHANGED <<mainVars, detectVars, yamlVars, call, text1, text2, raw, diff>>

NextDiff ==
    \/ NormalizeTexts
    \/ DiffMain
    \/ CleanupSemantic
    \/ PrettyHtml

SpecDiff == InitDiff /\ [][NextDiff]_vars


(***************************************************************************)
(* Claims about generate_diff_html                                         *)
(***************************************************************************)

\* The text an edit script stands for on one side: its spans other than
\* those of the op left out, concatenated in script order.
RECURSIVE Rebuild(_, _)
Rebuild(script, without) ==
    IF script = <<>> THEN <<>>
    ELSE (IF Head(script).op = without THEN <<>> ELSE Head(script).text)
             \o Rebuild(Tail(script), without)

Reconstructs(script, left, right) ==
    /\ \A i \in 1..Len(script) : script[i].op \in {DIFF_DELETE, DIFF_INSERT, DIFF_EQUAL}
    /\ Rebuild(script, DIFF_INSERT) = left
    /\ Rebuild(script, DIFF_DELETE) = right

OnlyEqual(script) == \A i \in 1..Len(script) : script[i].op = DIFF_EQUAL

AfterDiffMain == pc \in {"gdh_cleanup", "gdh_html", "gdh_return"}
AfterCleanup == pc \in {"gdh_html", "gdh_return"}

\* C1: the edit script rebuilds the left text from its EQUAL and DELETE spans
\* and the right text from its EQUAL and INSERT spans, as diff_main returns it
\* and again after diff_cleanupSemantic.
C1_Reconstruction ==
    /\ AfterDiffMain => Reconstructs(raw, text1, text2)
    /\ AfterCleanup => Reconstructs(diff, text1, text2)

\* A script that the cleanup changed and that holds all three kinds of span.
C1_Witness ==
    /\ pc = "gdh_return"
    /\ raw # diff
    /\ \A op \in {DIFF_DELETE, DIFF_INSERT, DIFF_EQUAL} :
         \E i \in 1..Len(diff) : diff[i].op = op
    /\ text1 # text2

\* C7: the edit script of a text against itself holds only EQUAL spans, which
\* concatenate to the text; generate_diff_html called on (S, S) hands the diff
\* engine such a pair.
C7_IdentityDiff ==
    /\ (AfterDiffMain /\ text1 = text2) =>
           OnlyEqual(raw) /\ Rebuild(raw, DIFF_INSERT) = text1
    /\ (AfterCleanup /\ text1 = text2) =>
           OnlyEqual(diff) /\ Rebuild(diff, DIFF_INSERT) = text1
    /\ (call.text1 = call.text2 /\ pc # "gdh_normalize") => text1 = text2

\* The script of a text of two lines against itself.
C7_Witness ==
    /\ pc = "gdh_return"
    /\ call.text1 = call.text2
    /\ Len(text1) >= 3
    /\ LF \in {text1[i] : i \in 1..Len(text1)}
    /\ diff = <<Span(DIFF_EQUAL, text1)>>

\* The lines of a text on line-feed boundaries, each without its leading and
\* trailing whitespace.
StrippedLines(t) == [k \in 1..Len(split_LF(t)) |-> strip(split_LF(t)[k])]

\* Two texts that differ only in leading or trailing whitespace of their lines.
SameUpToLineWhitespace(a, b) == StrippedLines(a) = StrippedLines(b)

\* C8: the normalizer is applied to both texts if and only if
\* ignore_whitespace is set; with it set, two texts that differ only in
\* leading or trailing whitespace of their lines give a script without INSERT
\* and DELETE spans.
C8_WhitespaceInsensitive ==
    /\ pc # "gdh_normalize" =>
         IF call.ignore_whitespace
         THEN text1 = normalize(call.text1) /\ text2 = normalize(call.text2)
         ELSE text1 = call.text1 /\ text2 = call.text2
    /\ (AfterCleanup /\ call.ignore_whitespace
          /\ SameUpToLineWhitespace(call.text1, call.text2)) => OnlyEqual(diff)

-----------------------------------------------------------------------------
\* read_file on a YAML file: yaml.safe_load's document, re-serialized by
\* yaml.dump(data, indent=2).  The document is a tree of mappings and plain
\* scalars; a mapping keeps its keys in the order of the source, as a Python
\* dict does.

StrKey(t) == [type |-> "str", text |-> t]
IntKey(t) == [type |-> "int", text |-> t]
Keys == {StrKey("a"), StrKey("b"), IntKey("1")}

Scalar(v) == [kind |-> "scalar", val |-> v, items |-> <<>>]
Mapping(items) == [kind |-> "mapping", val |-> "", items |-> items]
Item(k, v) == [key |-> k, value |-> v]

MaxKeys == 2

Injective(s) == \A i, j \in DOMAIN s : s[i] = s[j] => i = j

\* The key lists of a mapping: no key twice.
KeySeqs ==
    UNION {{ks \in [1..n -> Keys] : Injective(ks)} : n \in 1..MaxKeys}

Leaf == Scalar("x")

LeafMappings ==
    {Mapping([i \in 1..Len(ks) |-> Item(ks[i], Leaf)]) : ks \in KeySeqs}

Values == {Leaf} \cup LeafMappings

\* The documents: a mapping of scalars, one of whose values may itself be a
\* mapping of scalars.
Docs ==
    UNION {{Mapping([i \in 1..Len(ks) |-> Item(ks[i], IF i = at THEN v ELSE Leaf)]) :
               at \in 1..Len(ks), v \in Values} : ks \in KeySeqs}

\* The orders in which a writer may list the keys.
KeyOrders == {o \in [1..Cardinality(Keys) -> Keys] : Injective(o)}

PlaceIn(order, k) == CHOOSE i \in DOMAIN order : order[i] = k

RECURSIVE ArrangedBy(_, _)
ArrangedBy(items, place) ==
    IF items = <<>> THEN <<>>
    ELSE LET m == CHOOSE i \in 1..Len(items) :
                    \A j \in 1..Len(items) : place[items[i].key] <= place[items[j].key]
         IN  <<items[m]>> \o ArrangedBy(DeleteAt(items, m - 1), place)

\* The document with the keys of every mapping listed in the given order.
RECURSIVE Reordered(_, _)
Reordered(node, order) ==
    IF node.kind = "scalar" THEN node
    ELSE LET place == [k \in Keys |-> PlaceIn(order, k)]
             arranged == ArrangedBy(node.items, place)
         IN  Mapping([i \in 1..Len(arranged) |->
                 Item(arranged[i].key, Reordered(arranged[i].value, order))])

\* Python's order on keys of one type: strings by code point, ints by value.
CodePoint(c) == CASE c = "1" -> 49 [] c = "a" -> 97 [] c = "b" -> 98

\* sorted(mapping) raises TypeError when two keys are of different types.
Orderable(items) ==
    \A i, j \in 1..Len(items) : items[i].key.type = items[j].key.type

sorted(items) == ArrangedBy(items, [k \in Keys |-> CodePoint(k.text)])

\* Representer.represent_mapping: the items sorted if sort_keys, in the
\* order of the dict if sorting raises TypeError.
represent_mapping(items, sort_keys) ==
    IF sort_keys /\ Orderable(items) THEN sorted(items) ELSE items

Indent(n) == [i \in 1..n |-> " "]

\* The block-style text of a mapping at a nesting depth, two spaces a level.
RECURSIVE emit_items(_, _, _)
emit_items(items, depth, sort_keys) ==
    IF items = <<>> THEN <<>>
    ELSE LET it == Head(items)
             entry ==
               IF it.value.kind = "scalar"
               THEN <<it.key.text, ":", " ", it.value.val, LF>>
               ELSE <<it.key.text, ":", LF>>
                    \o emit_items(represent_mapping(it.value.items, sort_keys),
                                  depth + 1, sort_keys)
         IN  Indent(2 * depth) \o entry \o emit_items(Tail(items), depth, sort_keys)

yaml_dump(data, sort_keys) ==
    emit_items(represent_mapping(data.items, sort_keys), 0, sort_keys)

\* The mutant of read_yaml: the keys are written in the order of the source.
read_yaml_NoSort(data) == yaml_dump(data, FALSE)

\* Lines 86-87: yaml.dump(data, indent=2), with sort_keys at its default.
read_yaml(data) == yaml_dump(data, TRUE)

InitYaml ==
    /\ pc = "read_yaml1"
    /\ doc1 \in Docs
    /\ \E order \in KeyOrders : doc2 = Reordered(doc1, order)
    /\ args = <<>>
    /\ file_type = "yaml"
    /\ config1 = <<>>
    /\ config2 = <<>>
    /\ log = <<>>
    /\ exit_status = "running"
    /\ emitted = "none"
    /\ IdleDetect
    /\ IdleDiff

\* Line 180: config1 = read_file(args.file1, file_type)
ReadYaml1 ==
    /\ pc = "read_yaml1"
    /\ config1' = read_yaml(doc1)
    /\ pc' = "read_yaml2"
    /\ UNCHANGED <<args, file_type, config2, log, exit_status, emitted,
                   detectVars, diffVars, yamlVars>>

\* Line 181: config2 = read_file(args.file2, file_type)
ReadYaml2 ==
    /\ pc = "read_yaml2"
    /\ config2' = read_yaml(doc2)
    /\ pc' = "yaml_diff"
    /\ UNCHANGED <<args, file_type, config1, log, exit_status, emitted,
                   detectVars, diffVars, yamlVars>>

\* Line 188: generate_diff_html(config1, config2, args.ignore_whitespace)
DiffYaml ==
    /\ pc = "yaml_diff"
    /\ \E iw \in BOOLEAN, deadline_passed \in BOOLEAN :
         LET texts == normalize_if(iw, config1, config2)
             script == diff_call(texts[1], texts[2], deadline_passed)
         IN  /\ call' = [text1 |-> config1, text2 |-> config2,
                         ignore_whitespace |-> iw]
             /\ text1' = texts[1]
             /\ text2' = texts[2]
             /\ raw' = script
             /\ diff' = diff_cleanupSemantic(script)
             /\ html' = diff_prettyHtml(diff')
    /\ pc' = "yaml_done"
    /\ UNCHANGED <<mainVars, detectVars, yamlVars>>

NextYaml ==
    \/ ReadYaml1
    \/ ReadYaml2
    \/ DiffYaml

SpecYaml == InitYaml /\ [][NextYaml]_vars

\* Two documents with the same keys and values, the keys of a mapping
\* possibly in another order.
RECURSIVE SameUpToKeyOrder(_, _)
SameUpToKeyOrder(m, n) ==
    IF m.kind = "scalar" \/ n.kind = "scalar" THEN m = n
    ELSE /\ Len(m.items) = Len(n.items)
         /\ \A i \in 1..Len(m.items) : \E j \in 1..Len(n.items) :
              /\ n.items[j].key = m.items[i].key
              /\ SameUpToKeyOrder(m.items[i].value, n.items[j].value)

\* Every mapping of the document, at every depth, has keys of one type.
RECURSIVE AllOrderable(_)
AllOrderable(node) ==
    \/ node.kind = "scalar"
    \/ /\ Orderable(node.items)
       /\ \A i \in 1..Len(node.items) : AllOrderable(node.items[i].value)

BothRead == pc \in {"yaml_diff", "yaml_done"}

\* C10 as stated: two YAML documents that differ only in the order of mapping
\* keys give the same canonical text and a script without INSERT and DELETE
\* spans.
C10_KeyOrderInsensitive ==
    /\ (BothRead /\ SameUpToKeyOrder(doc1, doc2)) => config1 = config2
    /\ (pc = "yaml_done" /\ SameUpToKeyOrder(doc1, doc2)) => OnlyEqual(diff)

\* C10, amended: two YAML documents that differ only in the order of mapping
\* keys, and whose mappings each have keys of one type, give the same
\* canonical text and a script without INSERT and DELETE spans.
C10_KeyOrderInsensitiveForOrderableKeys ==
    /\ (BothRead /\ SameUpToKeyOrder(doc1, doc2) /\ AllOrderable(doc1)) =>
           config1 = config2
    /\ (pc = "yaml_done" /\ SameUpToKeyOrder(doc1, doc2) /\ AllOrderable(doc1)) =>
           OnlyEqual(diff)

\* Two documents whose keys are listed in another order at the top and in a
\* nested mapping, diffed.
C10_Witness ==
    /\ pc = "yaml_done"
    /\ AllOrderable(doc1)
    /\ SameUpToKeyOrder(doc1, doc2)
    /\ Len(doc1.items) >= 2
    /\ doc1.items[1].key # doc2.items[1].key
    /\ \E i, j \in 1..Len(doc1.items) :
         /\ doc1.items[i].key = doc2.items[j].key
         /\ doc1.items[i].value.kind = "mapping"
         /\ doc1.items[i].value # doc2.items[j].value
    /\ config1 = config2
    /\ diff = <<Span(DIFF_EQUAL, text1)>>

=============================================================================
